---- MODULE Spec2Model ----
(***************************************************************************)
(* Model of agwb.py: the bitfield codec (BitField, _BitFieldAccess) and    *)
(* the extended bus interface DemoIface (deferred operation list, futures, *)
(* read-modify-write aggregation) acting on the emulated register file rf. *)
(***************************************************************************)
EXTENDS Integers, Sequences, FiniteSets, TLC

\* ------------------------------------------------------------------ bounds
\* Width of a register word in the model (the registers are 32 bits wide).
WordBits == 1
\* Number of addresses of the register file that the model exercises.
NAddr == 2
\* Longest operation list the model lets a call leave behind.
MaxQueue == 3
\* Number of DI_future objects that can be alive at once.
MaxFut == 2
\* Number of futures the caller keeps at once.
MaxHeld == 1
\* Width of the raw register words the bitfield accesses work on.
RegBits == 3
\* Longest operation list ahead of a bitfield access.
MaxQueueBF == 1
\* Highest bit of the registers that the deferred bitfield accesses go to.
FieldTop == 1
\* Highest msb of the bitfield descriptors constructed.
MaxMsb == 28
\* Longest sequence of values given to write_fifo, and highest count given to read_fifo.
MaxFifo == 2
\* Largest number of items of a vector, largest size of an item and largest base of a vector.
MaxItems == 3
\* The "full possible length" of the operation list that the module
\* docstring and the specification speak of (the code configures none).
OperListFull == 2

\* ------------------------------------------------------------------ values
\* Python's None, as an address (rmw_addr) and as a value (_val, no result).
None == -1
\* Python's None, as a reference to a future (rmw_df).
NoDf == 0

Addr == 0 .. (NAddr - 1)
Word == 0 .. (2 ^ WordBits - 1)
FutId == 1 .. MaxFut

\* Python's &, | and ^ on non-negative integers.
RECURSIVE BitAnd(_, _)
BitAnd(a, b) ==
    IF a = 0 \/ b = 0 THEN 0
    ELSE (a % 2) * (b % 2) + 2 * BitAnd(a \div 2, b \div 2)

RECURSIVE BitOr(_, _)
BitOr(a, b) ==
    IF a = 0 THEN b
    ELSE IF b = 0 THEN a
    ELSE (IF a % 2 = 1 \/ b % 2 = 1 THEN 1 ELSE 0) + 2 * BitOr(a \div 2, b \div 2)

RECURSIVE BitXor(_, _)
BitXor(a, b) ==
    IF a = 0 THEN b
    ELSE IF b = 0 THEN a
    ELSE (IF a % 2 = b % 2 THEN 0 ELSE 1) + 2 * BitXor(a \div 2, b \div 2)

\* Python's x << n on a non-negative x.
Shl(x, n) == x * (2 ^ n)
\* Python's x >> n on a non-negative x.
Shr(x, n) == x \div (2 ^ n)

\* x & ~m, the way the code clears the bits of a mask: (x | m) ^ m.
ClearBits(x, m) == BitXor(BitOr(x, m), m)

\* ------------------------------------------------------------------ state
VARIABLES
    rf,         \* the emulated register file (global rf)
    opers,      \* DemoIface.opers: the list of scheduled operations
    rmw_df,     \* DemoIface.rmw_df: future of the baseline read of the pending RMW
    rmw_addr,   \* DemoIface.rmw_addr: address of the pending RMW, or None
    rmw_mask,   \* DemoIface.rmw_mask
    rmw_nval,   \* DemoIface.rmw_nval
    dfs,        \* the DI_future objects: done, _val
    held,       \* the futures the caller got from readx and still refers to
    last        \* history: the last call made on the interface and what it did

vars == <<rf, opers, rmw_df, rmw_addr, rmw_mask, rmw_nval, dfs, held, last>>

\* The three kinds of scheduled operation (the lambdas of writex, readx, rmw).
WriteOp(addr, val) ==
    [k |-> "_write", addr |-> addr, val |-> val, df |-> NoDf, mask |-> 0, nval |-> 0]
ReadOp(addr, df) ==
    [k |-> "_read", addr |-> addr, val |-> 0, df |-> df, mask |-> 0, nval |-> 0]
RmwOp(odf, waddr, mask, nval) ==
    [k |-> "_rmw", addr |-> waddr, val |-> 0, df |-> odf, mask |-> mask, nval |-> nval]

\* A future as DI_future.__init__ leaves it.
NewFuture == [done |-> FALSE, val |-> None]

\* The call record: nothing called yet.
NoCall ==
    [op |-> "none", ret |-> None, nd |-> 0, nran |-> 0, err |-> FALSE]

\* The interface and the register file as one value s, together with the
\* record of the call in progress: ran lists the scheduled operations the
\* call executed, bus the accesses to the register file it made, nd counts
\* its calls of dispatch(), ret is the value returned, err says that an
\* exception was raised, full that the call needs more futures than MaxFut.
Cur ==
    [rf |-> rf, opers |-> opers, rmw_df |-> rmw_df, rmw_addr |-> rmw_addr,
     rmw_mask |-> rmw_mask, rmw_nval |-> rmw_nval, dfs |-> dfs, held |-> held,
     ran |-> <<>>, bus |-> <<>>, nd |-> 0, ret |-> None, err |-> FALSE, full |-> FALSE]

\* ------------------------------------------------------------------ DemoIface
\* The futures something still refers to.
InUse(s) ==
    s.held \cup {s.opers[i].df : i \in DOMAIN s.opers} \cup {s.rmw_df}

\* self.DI_future(self): a fresh object (the lowest free slot of the model).
DI_future(s) ==
    LET free == FutId \ InUse(s)
    IN IF free = {} THEN 1 ELSE CHOOSE f \in free : \A g \in free : f <= g

\* An access to the register file, as the call record keeps it: its kind,
\* address and value, and the length of the operation list and the pending
\* RMW address at the time of the access.
Access(s, k, addr, val) ==
    [k |-> k, addr |-> addr, val |-> val, q |-> Len(s.opers), pend |-> s.rmw_addr]

_read(s, addr) ==
    [s EXCEPT !.ret = s.rf[addr],
              !.bus = Append(@, Access(s, "r", addr, s.rf[addr]))]

_write(s, addr, val) ==
    [s EXCEPT !.rf = [@ EXCEPT ![addr] = val],
              !.ret = None,
              !.bus = Append(@, Access(s, "w", addr, val))]

\* DI_future.set
set(s, df, val) ==
    [s EXCEPT !.dfs = [@ EXCEPT ![df] = [@ EXCEPT !.done = TRUE, !.val = val]],
              !.ret = None]

\* The real HW implemented RMW.  df.val of a future that is not done calls
\* dispatch() from inside dispatch(): the inner loop runs the same list and
\* reaches this operation again with df still not done, so the recursion
\* never ends and Python raises RecursionError.
_rmw(s, df, addr, mask, nval) ==
    IF ~s.dfs[df].done
    THEN [s EXCEPT !.err = TRUE, !.nd = @ + 1]
    ELSE LET dval0 == BitOr(s.dfs[df].val, mask)
             dval1 == BitXor(dval0, mask)
             dval2 == BitOr(dval1, nval)
         IN _write(s, addr, dval2)

\* x(): one scheduled operation.
RunOp(s, x) ==
    LET s1 == [s EXCEPT !.ran = Append(@, x)]
    IN CASE x.k = "_write" -> _write(s1, x.addr, x.val)
         [] x.k = "_read"  -> LET s2 == _read(s1, x.addr) IN set(s2, x.df, s2.ret)
         [] x.k = "_rmw"   -> _rmw(s1, x.df, x.addr, x.mask, x.nval)

\* for x in self.opers: x()
RECURSIVE RunOps(_, _)
RunOps(s, ops) ==
    IF ops = <<>> \/ s.err THEN s
    ELSE RunOps(RunOp(s, Head(ops)), Tail(ops))

\* dispatch as it would be if it finalized the pending RMW first.
dispatch_finalizing(s) ==
    LET s0 == [s EXCEPT !.nd = @ + 1,
                        !.opers = IF s.rmw_addr # None
                                  THEN Append(@, RmwOp(s.rmw_df, s.rmw_addr, s.rmw_mask, s.rmw_nval))
                                  ELSE @,
                        !.rmw_addr = None,
                        !.rmw_df = NoDf]
    IN IF s0.opers = <<>> THEN s0
       ELSE LET s1 == RunOps(s0, s0.opers)
            IN IF s1.err THEN s1 ELSE [s1 EXCEPT !.opers = <<>>, !.ret = None]

\* dispatch as it would be without "self.opers=[]": the executed operations
\* stay in the list.
dispatch_keep(s) ==
    LET s0 == [s EXCEPT !.nd = @ + 1]
    IN IF s0.opers = <<>> THEN s0
       ELSE LET s1 == RunOps(s0, s0.opers)
            IN IF s1.err THEN s1 ELSE [s1 EXCEPT !.ret = None]

dispatch(s) ==
    LET s0 == [s EXCEPT !.nd = @ + 1]
    IN IF s0.opers = <<>> THEN s0
       ELSE LET s1 == RunOps(s0, s0.opers)
            IN IF s1.err THEN s1 ELSE [s1 EXCEPT !.opers = <<>>, !.ret = None]

\* Finalize the previous RMW: schedule its write.
FlushPending(s, odf, waddr, mask, nval) ==
    [s EXCEPT !.opers = Append(@, RmwOp(odf, waddr, mask, nval)),
              !.rmw_addr = None,
              !.rmw_df = NoDf]

\* The start of a pending RMW as it would be without the scheduling of the
\* read of the initial value.
StartPending_unscheduled(s, addr) ==
    LET df == DI_future(s)
    IN [s EXCEPT !.full = @ \/ (FutId \ InUse(s) = {}),
                 !.dfs = [@ EXCEPT ![df] = NewFuture],
                 !.rmw_df = df,
                 !.rmw_addr = addr]

\* Schedule reading of the initial value of the register.
StartPending(s, addr) ==
    LET df == DI_future(s)
    IN [s EXCEPT !.full = @ \/ (FutId \ InUse(s) = {}),
                 !.dfs = [@ EXCEPT ![df] = NewFuture],
                 !.opers = Append(@, ReadOp(addr, df)),
                 !.rmw_df = df,
                 !.rmw_addr = addr]

\* Now aggregate the current operation.
Aggregate(s, mask, val) ==
    LET m1 == BitOr(s.rmw_mask, mask)
        n1 == BitOr(s.rmw_nval, mask)
        n2 == BitXor(n1, mask)
        n3 == BitOr(n2, BitAnd(val, mask))
    IN [s EXCEPT !.rmw_mask = m1, !.rmw_nval = n3]

\* rmw as it would be without the copy "mask = self.rmw_mask": the scheduled
\* write takes the mask of the request that finalizes it.
rmw_nocopy(s, addr, mask_arg, val) ==
    LET flush == (s.rmw_addr # None) /\ (addr # s.rmw_addr)
        s1 == IF flush
              THEN FlushPending(s, s.rmw_df, s.rmw_addr, mask_arg, s.rmw_nval)
              ELSE s
    IN IF addr = None THEN s1
       ELSE Aggregate(IF s1.rmw_addr = None THEN StartPending(s1, addr) ELSE s1,
                      mask_arg, val)

rmw(s, addr, mask_arg, val) ==
    LET flush == (s.rmw_addr # None) /\ (addr # s.rmw_addr)
        \* mask = self.rmw_mask rebinds the parameter
        mask == IF flush THEN s.rmw_mask ELSE mask_arg
        s1 == IF flush
              THEN FlushPending(s, s.rmw_df, s.rmw_addr, mask, s.rmw_nval)
              ELSE s
    IN IF addr = None THEN s1
       ELSE Aggregate(IF s1.rmw_addr = None THEN StartPending(s1, addr) ELSE s1,
                      mask, val)

\* read as it would be with the dispatch before the finalization of the RMW.
read_late(s, addr) ==
    LET s1 == IF s.opers # <<>> THEN dispatch(s) ELSE s
        s2 == IF s1.err THEN s1 ELSE rmw(s1, None, 0, 0)
    IN IF s2.err THEN s2 ELSE _read(s2, addr)

read(s, addr) ==
    LET s1 == rmw(s, None, 0, 0)
        s2 == IF s1.opers # <<>> THEN dispatch(s1) ELSE s1
    IN IF s2.err THEN s2 ELSE _read(s2, addr)

write(s, addr, val) ==
    LET s1 == rmw(s, None, 0, 0)
        s2 == IF s1.opers # <<>> THEN dispatch(s1) ELSE s1
    IN IF s2.err THEN s2 ELSE _write(s2, addr, val)

\* writex as it would be without the call "self.rmw()".
writex_nofinalize(s, addr, val) ==
    [s EXCEPT !.opers = Append(@, WriteOp(addr, val)), !.ret = None]

writex(s, addr, val) ==
    LET s1 == rmw(s, None, 0, 0)
    IN [s1 EXCEPT !.opers = Append(@, WriteOp(addr, val)), !.ret = None]

\* readx as it would be if it scheduled the read twice.
readx_twice(s, addr) ==
    LET s1 == rmw(s, None, 0, 0)
        df == DI_future(s1)
    IN [s1 EXCEPT !.full = @ \/ (FutId \ InUse(s1) = {}),
                  !.dfs = [@ EXCEPT ![df] = NewFuture],
                  !.opers = @ \o <<ReadOp(addr, df), ReadOp(addr, df)>>,
                  !.held = @ \cup {df},
                  !.ret = df]

readx(s, addr) ==
    LET s1 == rmw(s, None, 0, 0)
        df == DI_future(s1)
    IN [s1 EXCEPT !.full = @ \/ (FutId \ InUse(s1) = {}),
                  !.dfs = [@ EXCEPT ![df] = NewFuture],
                  !.opers = Append(@, ReadOp(addr, df)),
                  !.held = @ \cup {df},
                  !.ret = df]

\* The value of a future as it would be without the test "if self.done":
\* every access dispatches.
DI_val_eager(s, df) ==
    LET s1 == dispatch(s)
    IN IF s1.err THEN s1
       ELSE IF s1.dfs[df].done THEN [s1 EXCEPT !.ret = s1.dfs[df].val]
       ELSE [s1 EXCEPT !.err = TRUE, !.ret = None]

\* DI_future.__getattr__("val")
DI_val(s, df) ==
    IF s.dfs[df].done THEN [s EXCEPT !.ret = s.dfs[df].val]
    ELSE LET s1 == dispatch(s)
         IN IF s1.err THEN s1
            ELSE IF s1.dfs[df].done THEN [s1 EXCEPT !.ret = s1.dfs[df].val]
            ELSE [s1 EXCEPT !.err = TRUE, !.ret = None]

\* ------------------------------------------------------------------ the calls
\* What the call that led to s is recorded as.
CallRec(s, op) ==
    [op |-> op, ret |-> s.ret, nd |-> s.nd, nran |-> Len(s.ran), err |-> s.err]

\* The futures are objects without a name of their own.  The model numbers
\* the ones in use 1, 2, ... in the order of their first use in the operation
\* list, then the baseline of the pending RMW, then the ones only the caller
\* still holds (by value); a future nothing refers to any more is gone.
Collect(s) ==
    LET used == InUse(s) \ {NoDf}
        key == [f \in used |->
                  LET at == {i \in DOMAIN s.opers : s.opers[i].df = f}
                  IN IF at # {} THEN CHOOSE i \in at : \A j \in at : i <= j
                     ELSE IF f = s.rmw_df THEN Len(s.opers) + 1
                     ELSE Len(s.opers) + 2 + (IF s.dfs[f].done THEN 1 + s.dfs[f].val ELSE 0)]
        rank == [f \in FutId \cup {NoDf} |->
                   IF f \notin used THEN NoDf
                   ELSE 1 + Cardinality({g \in used :
                                key[g] < key[f] \/ (key[g] = key[f] /\ g < f)})]
    IN [s EXCEPT
          !.opers = [i \in DOMAIN s.opers |-> [s.opers[i] EXCEPT !.df = rank[@]]],
          !.rmw_df = rank[@],
          !.held = {rank[f] : f \in s.held},
          !.dfs = [n \in FutId |->
                     IF \E f \in used : rank[f] = n
                     THEN s.dfs[CHOOSE f \in used : rank[f] = n]
                     ELSE NewFuture]]

\* The call is within the bounds of the model.
Fits(s) == ~s.full /\ Len(s.opers) <= MaxQueue

\* The state the call leaves behind.
Becomes(s) ==
    \E c \in {Collect(s)} :
       /\ rf' = c.rf
       /\ opers' = c.opers
       /\ rmw_df' = c.rmw_df
       /\ rmw_addr' = c.rmw_addr
       /\ rmw_mask' = c.rmw_mask
       /\ rmw_nval' = c.rmw_nval
       /\ dfs' = c.dfs
       /\ held' = c.held

Init ==
    /\ rf = [a \in Addr |-> 0]
    /\ opers = <<>>
    /\ rmw_df = NoDf
    /\ rmw_addr = None
    /\ rmw_mask = 0
    /\ rmw_nval = 0
    /\ dfs = [f \in FutId |-> NewFuture]
    /\ held = {}
    /\ last = NoCall

Read(addr) ==
    \E s \in {read(Cur, addr)} :
       /\ Fits(s)
       /\ Becomes(s)
       /\ last' = CallRec(s, "read")

Write(addr, val) ==
    \E s \in {write(Cur, addr, val)} :
       /\ Fits(s)
       /\ Becomes(s)
       /\ last' = CallRec(s, "write")

Writex(addr, val) ==
    \E s \in {writex(Cur, addr, val)} :
       /\ Fits(s)
       /\ Becomes(s)
       /\ last' = CallRec(s, "writex")

Readx(addr) ==
    \E s \in {readx(Cur, addr)} :
       /\ Fits(s)
       /\ Cardinality(s.held) <= MaxHeld
       /\ Becomes(s)
       /\ last' = [CallRec(s, "readx") EXCEPT !.ret = None]

\* rmw(addr, mask, val)
Rmw(addr, mask, val) ==
    \E s \in {rmw(Cur, addr, mask, val)} :
       /\ Fits(s)
       /\ Becomes(s)
       /\ last' = CallRec(s, "rmw")

\* rmw()
RmwFinalize ==
    \E s \in {rmw(Cur, None, 0, 0)} :
       /\ Fits(s)
       /\ Becomes(s)
       /\ last' = CallRec(s, "finalize")

Dispatch ==
    \E s \in {dispatch(Cur)} :
       /\ Fits(s)
       /\ Becomes(s)
       /\ last' = CallRec(s, "dispatch")

\* df.val, for a future df that readx returned
FutureVal(df) ==
    \E s \in {DI_val(Cur, df)} :
       /\ df \in held
       /\ Fits(s)
       /\ Becomes(s)
       /\ last' = CallRec(s, "val")

\* The caller lets go of a future.
Drop(df) ==
    /\ df \in held
    /\ Becomes([Cur EXCEPT !.held = held \ {df}])
    /\ last' = last

Next ==
    \/ \E addr \in Addr : Read(addr)
    \/ \E addr \in Addr, val \in Word : Write(addr, val)
    \/ \E addr \in Addr, val \in Word : Writex(addr, val)
    \/ \E addr \in Addr : Readx(addr)
    \/ \E addr \in Addr, mask \in Word, val \in Word : Rmw(addr, mask, val)
    \/ RmwFinalize
    \/ Dispatch
    \/ \E df \in FutId : FutureVal(df)
    \/ \E df \in FutId : Drop(df)

Spec == Init /\ [][Next]_vars

\* ------------------------------------------------------------------ bitfields
\* BitField.__init__ as it would be with the mask ending below msb.
BitField_narrow(msb, lsb, is_signed) ==
    [lsb |-> lsb,
     msb |-> msb,
     sign_mask |-> IF is_signed THEN Shl(1, msb - lsb) ELSE 0,
     vmin |-> IF is_signed THEN 0 - Shl(1, msb - lsb) ELSE 0,
     vmax |-> IF is_signed THEN Shl(1, msb - lsb) - 1 ELSE Shl(1, msb - lsb + 1) - 1,
     mask |-> BitXor(Shl(1, msb) - 1, Shl(1, lsb) - 1)]

\* BitField.__init__
BitField(msb, lsb, is_signed) ==
    [lsb |-> lsb,
     msb |-> msb,
     sign_mask |-> IF is_signed THEN Shl(1, msb - lsb) ELSE 0,
     vmin |-> IF is_signed THEN 0 - Shl(1, msb - lsb) ELSE 0,
     vmax |-> IF is_signed THEN Shl(1, msb - lsb) - 1 ELSE Shl(1, msb - lsb + 1) - 1,
     mask |-> BitXor(Shl(1, msb + 1) - 1, Shl(1, lsb) - 1)]

\* The bitfields of a register of RegBits bits.
BitFields ==
    {BitField(p[1], p[2], p[3]) :
        p \in {q \in (0 .. RegBits - 1) \X (0 .. RegBits - 1) \X BOOLEAN : q[2] <= q[1]}}

\* The raw words of a register.
RawWord == 0 .. (2 ^ RegBits - 1)

\* _BitFieldAccess.read as it would be without the sign extension.
BF_read_unsigned(s, base, bf) ==
    LET s1 == read(s, base)
    IN IF s1.err THEN s1
       ELSE [s1 EXCEPT !.ret = Shr(BitAnd(s1.ret, bf.mask), bf.lsb)]

\* _BitFieldAccess.read
BF_read(s, base, bf) ==
    LET s1 == read(s, base)
        r1 == Shr(BitAnd(s1.ret, bf.mask), bf.lsb)
        r2 == IF bf.sign_mask # 0 /\ BitAnd(r1, bf.sign_mask) # 0
              THEN r1 - Shl(bf.sign_mask, 1)
              ELSE r1
    IN IF s1.err THEN s1 ELSE [s1 EXCEPT !.ret = r2]

\* _BitFieldAccess.write
BF_write(s, base, bf, value) ==
    IF value < bf.vmin \/ value > bf.vmax
    THEN [s EXCEPT !.err = TRUE]
    ELSE LET v1 == IF bf.sign_mask # 0 /\ value < 0
                   THEN value + Shl(bf.sign_mask, 1)
                   ELSE value
             s1 == read(s, base)
             rval == ClearBits(s1.ret, bf.mask)
             v2 == BitAnd(Shl(v1, bf.lsb), bf.mask)
         IN IF s1.err THEN s1 ELSE write(s1, base, BitOr(rval, v2))

\* What the bitfield call that led to s is recorded as: rw says that a read
\* directly follows a write of the value v to the same bitfield.  A write
\* that raised the exception is recorded without its arguments.
CallRecBF(s, op, base, bf, v, rw) ==
    [op |-> op, base |-> base, bf |-> bf, v |-> v, rw |-> rw,
     ret |-> s.ret, err |-> s.err]

NoCallBF == CallRecBF(Cur, "none", 0, BitField(0, 0, FALSE), 0, FALSE)

\* The register file holds any raw words when the accesses begin.
InitBF ==
    /\ rf \in [Addr -> RawWord]
    /\ opers = <<>>
    /\ rmw_df = NoDf
    /\ rmw_addr = None
    /\ rmw_mask = 0
    /\ rmw_nval = 0
    /\ dfs = [f \in FutId |-> NewFuture]
    /\ held = {}
    /\ last = NoCallBF

\* reg.field.write(value)
BFWrite(base, bf, value) ==
    \E s \in {BF_write(Cur, base, bf, value)} :
       /\ Becomes(s)
       /\ last' = IF s.err
                  THEN [NoCallBF EXCEPT !.op = "bf_write", !.err = TRUE]
                  ELSE CallRecBF(s, "bf_write", base, bf, value, FALSE)

\* reg.field.read()
BFRead(base, bf) ==
    \E s \in {BF_read(Cur, base, bf)} :
       /\ Becomes(s)
       /\ LET rw == last.op = "bf_write" /\ ~last.err /\ last.base = base /\ last.bf = bf
          IN last' = CallRecBF(s, "bf_read", base, bf, IF rw THEN last.v ELSE 0, rw)

\* reg.writex(value) ahead of a bitfield access
RegWritex(addr, val) ==
    \E s \in {writex(Cur, addr, val)} :
       /\ Len(s.opers) <= MaxQueueBF
       /\ Becomes(s)
       /\ last' = [NoCallBF EXCEPT !.op = "writex"]

NextBF ==
    \/ \E base \in Addr, bf \in BitFields :
          \E value \in (bf.vmin - 1) .. (bf.vmax + 1) : BFWrite(base, bf, value)
    \/ \E base \in Addr, bf \in BitFields : BFRead(base, bf)
    \/ \E addr \in Addr, val \in RawWord : RegWritex(addr, val)

SpecBF == InitBF /\ [][NextBF]_vars

\* ------------------------------------------------------------------ bitfield descriptors
\* No descriptor constructed yet.
InitD ==
    /\ rf = [a \in Addr |-> 0]
    /\ opers = <<>>
    /\ rmw_df = NoDf
    /\ rmw_addr = None
    /\ rmw_mask = 0
    /\ rmw_nval = 0
    /\ dfs = [f \in FutId |-> NewFuture]
    /\ held = {}
    /\ last = [op |-> "none", is_signed |-> FALSE, bf |-> BitField(0, 0, FALSE)]

\* BitField(msb, lsb, is_signed)
NewBitField(msb, lsb, is_signed) ==
    /\ lsb <= msb
    /\ last' = [op |-> "BitField", is_signed |-> is_signed,
                bf |-> BitField(msb, lsb, is_signed)]
    /\ UNCHANGED <<rf, opers, rmw_df, rmw_addr, rmw_mask, rmw_nval, dfs, held>>

NextD ==
    \E msb \in 0 .. MaxMsb, lsb \in 0 .. MaxMsb, is_signed \in BOOLEAN :
        NewBitField(msb, lsb, is_signed)

SpecD == InitD /\ [][NextD]_vars

\* ------------------------------------------------------------------ deferred bitfield accesses
\* _BitFieldAccess.writex as it would be with the test of the value after
\* the scheduling of the RMW.
BF_writex_late(s, base, bf, value, now) ==
    LET v1 == IF bf.sign_mask # 0 /\ value < 0
              THEN value + Shl(bf.sign_mask, 1)
              ELSE value
        s1 == rmw(s, base, bf.mask, Shl(IF v1 < 0 THEN 0 ELSE v1, bf.lsb))
    IN IF value < bf.vmin \/ value > bf.vmax
       THEN [s1 EXCEPT !.err = TRUE]
       ELSE IF now THEN rmw(s1, None, 0, 0) ELSE s1

\* _BitFieldAccess.writex
BF_writex(s, base, bf, value, now) ==
    IF value < bf.vmin \/ value > bf.vmax
    THEN [s EXCEPT !.err = TRUE]
    ELSE LET v1 == IF bf.sign_mask # 0 /\ value < 0
                   THEN value + Shl(bf.sign_mask, 1)
                   ELSE value
             s1 == rmw(s, base, bf.mask, Shl(v1, bf.lsb))
         IN IF now THEN rmw(s1, None, 0, 0) ELSE s1

\* The bitfields of the registers that the deferred accesses go to: a signed
\* field in bit 0 and an unsigned one in the bits 1 .. FieldTop.
Fields == {BitField(0, 0, TRUE), BitField(FieldTop, 1, FALSE)}

\* What the call that led to s is recorded as, for the deferred bitfield
\* accesses: the operation and whether it raised an exception.
CallRecX(s, op) == [op |-> op, err |-> s.err]

\* The state after construction, with no call made yet.
InitX ==
    /\ rf = [a \in Addr |-> 0]
    /\ opers = <<>>
    /\ rmw_df = NoDf
    /\ rmw_addr = None
    /\ rmw_mask = 0
    /\ rmw_nval = 0
    /\ dfs = [f \in FutId |-> NewFuture]
    /\ held = {}
    /\ last = [op |-> "none", err |-> FALSE]

\* reg.field.writex(value, now)
XWritex(base, bf, value, now) ==
    \E s \in {BF_writex(Cur, base, bf, value, now)} :
       /\ Fits(s)
       /\ Becomes(s)
       /\ last' = CallRecX(s, "bf_writex")

\* reg.field.write(value)
XWrite(base, bf, value) ==
    \E s \in {BF_write(Cur, base, bf, value)} :
       /\ Fits(s)
       /\ Becomes(s)
       /\ last' = CallRecX(s, "bf_write")

\* block.dispatch()
XDispatch ==
    \E s \in {dispatch(Cur)} :
       /\ Fits(s)
       /\ Becomes(s)
       /\ last' = CallRecX(s, "dispatch")

NextX ==
    \/ \E base \in Addr, bf \in Fields, now \in BOOLEAN :
          \E value \in (bf.vmin - 1) .. (bf.vmax + 1) : XWritex(base, bf, value, now)
    \/ \E base \in Addr, bf \in Fields :
          \E value \in (bf.vmin - 1) .. (bf.vmax + 1) : XWrite(base, bf, value)
    \/ XDispatch

SpecX == InitX /\ [][NextX]_vars

\* ------------------------------------------------------------------ registers
\* The class of the register at each address: as in the demo, a status
\* register (c2.r1) and a control register (regs.rv).
RegClass == [a \in Addr |-> IF a = 0 THEN "StatusRegister" ELSE "ControlRegister"]

\* The addresses of the status registers.
Status == {a \in Addr : RegClass[a] = "StatusRegister"}

\* The bitfields of a register of WordBits bits.
WordFields ==
    {BitField(p[1], p[2], p[3]) :
        p \in {q \in (0 .. WordBits - 1) \X (0 .. WordBits - 1) \X BOOLEAN : q[2] <= q[1]}}

\* The sequences of values given to write_fifo.
FifoVals == UNION {[1 .. n -> Word] : n \in 1 .. MaxFifo}

\* _Register.write, without the override of StatusRegister.
Reg_write_inherited(s, cls, base, value) == write(s, base, value)

\* _Register.write, and StatusRegister.write that overrides it
Reg_write(s, cls, base, value) ==
    IF cls = "StatusRegister" THEN [s EXCEPT !.err = TRUE]
    ELSE write(s, base, value)

\* _Register.read
Reg_read(s, base) == read(s, base)

\* _Register.writex
Reg_writex(s, base, value) == writex(s, base, value)

\* _Register.rmw
Reg_rmw(s, base, mask, value, now) ==
    LET s1 == rmw(s, base, mask, value)
    IN IF now THEN rmw(s1, None, 0, 0) ELSE s1

\* DemoIface.write with a list for val: the pending RMW is finalized and the
\* list dispatched, then hex(val) in _write raises TypeError before rf is set.
write_list(s, addr, vals) ==
    LET s1 == rmw(s, None, 0, 0)
        s2 == IF s1.opers # <<>> THEN dispatch(s1) ELSE s1
    IN [s2 EXCEPT !.err = TRUE, !.ret = None]

\* _Register.write_fifo: the method of the interface it calls, and the state
\* that call leaves.
Reg_write_fifo(s, base, values) ==
    [method |-> "write", s |-> write_list(s, base, values)]

\* _Register.read_fifo: the method of the interface it calls, and the state
\* that call leaves; DemoIface has no read_fifo, the call raises AttributeError.
Reg_read_fifo(s, base, count) ==
    [method |-> "read_fifo", s |-> [s EXCEPT !.err = TRUE]]

\* The addresses that the call that led to s wrote to in the register file.
Wrote(s) == {s.bus[i].addr : i \in {j \in DOMAIN s.bus : s.bus[j].k = "w"}}

\* What the call on a register that led to s is recorded as.
CallRecR(s, op, base, method) ==
    [op |-> op, base |-> base, method |-> method, err |-> s.err, wrote |-> Wrote(s)]

\* The state after construction, with no call made yet.
InitR ==
    /\ rf = [a \in Addr |-> 0]
    /\ opers = <<>>
    /\ rmw_df = NoDf
    /\ rmw_addr = None
    /\ rmw_mask = 0
    /\ rmw_nval = 0
    /\ dfs = [f \in FutId |-> NewFuture]
    /\ held = {}
    /\ last = [op |-> "none", base |-> 0, method |-> "none", err |-> FALSE, wrote |-> {}]

\* reg.write(value)
R_write(base, value) ==
    \E s \in {Reg_write(Cur, RegClass[base], base, value)} :
       /\ Fits(s)
       /\ Becomes(s)
       /\ last' = CallRecR(s, "write", base, "write")

\* reg.read()
R_read(base) ==
    \E s \in {Reg_read(Cur, base)} :
       /\ Fits(s)
       /\ Becomes(s)
       /\ last' = CallRecR(s, "read", base, "read")

\* reg.writex(value)
R_writex(base, value) ==
    \E s \in {Reg_writex(Cur, base, value)} :
       /\ Fits(s)
       /\ Becomes(s)
       /\ last' = CallRecR(s, "writex", base, "writex")

\* reg.rmw(mask, value, now)
R_rmw(base, mask, value, now) ==
    \E s \in {Reg_rmw(Cur, base, mask, value, now)} :
       /\ Fits(s)
       /\ Becomes(s)
       /\ last' = CallRecR(s, "rmw", base, "rmw")

\* reg.write_fifo(values)
R_write_fifo(base, values) ==
    \E c \in {Reg_write_fifo(Cur, base, values)} :
       /\ Fits(c.s)
       /\ Becomes(c.s)
       /\ last' = CallRecR(c.s, "write_fifo", base, c.method)

\* reg.read_fifo(count)
R_read_fifo(base, count) ==
    \E c \in {Reg_read_fifo(Cur, base, count)} :
       /\ Fits(c.s)
       /\ Becomes(c.s)
       /\ last' = CallRecR(c.s, "read_fifo", base, c.method)

\* reg.field.write(value)
R_bf_write(base, bf, value) ==
    \E s \in {BF_write(Cur, base, bf, value)} :
       /\ Fits(s)
       /\ Becomes(s)
       /\ last' = CallRecR(s, "bf_write", base, "write")

\* reg.field.writex(value, now)
R_bf_writex(base, bf, value, now) ==
    \E s \in {BF_writex(Cur, base, bf, value, now)} :
       /\ Fits(s)
       /\ Becomes(s)
       /\ last' = CallRecR(s, "bf_writex", base, "rmw")

\* reg.dispatch()
R_dispatch ==
    \E s \in {dispatch(Cur)} :
       /\ Fits(s)
       /\ Becomes(s)
       /\ last' = CallRecR(s, "dispatch", 0, "dispatch")

NextR ==
    \/ \E base \in Addr, value \in Word : R_write(base, value)
    \/ \E base \in Addr : R_read(base)
    \/ \E base \in Addr, value \in Word : R_writex(base, value)
    \/ \E base \in Addr, mask \in Word, value \in Word, now \in BOOLEAN :
          R_rmw(base, mask, value, now)
    \/ \E base \in Addr, values \in FifoVals : R_write_fifo(base, values)
    \/ \E base \in Addr, count \in 1 .. MaxFifo : R_read_fifo(base, count)
    \/ \E base \in Addr, bf \in WordFields :
          \E value \in bf.vmin .. bf.vmax : R_bf_write(base, bf, value)
    \/ \E base \in Addr, bf \in WordFields, now \in BOOLEAN :
          \E value \in bf.vmin .. bf.vmax : R_bf_writex(base, bf, value, now)
    \/ R_dispatch

SpecR == InitR /\ [][NextR]_vars

\* ------------------------------------------------------------------ blocks
\* A hierarchy of blocks as the generated classes describe it: for each
\* block the addresses of its registers ID and VER, the constants x__id and
\* x__ver, x__is_blackbox, and the blocks among its fields.
Blocks ==
    [top  |-> [ID |-> 0, VER |-> 1, x__id |-> 1, x__ver |-> 0,
               x__is_blackbox |-> FALSE, x__fields |-> {"sub", "bb"}],
     sub  |-> [ID |-> 2, VER |-> 3, x__id |-> 0, x__ver |-> 1,
               x__is_blackbox |-> FALSE, x__fields |-> {"leaf"}],
     leaf |-> [ID |-> 4, VER |-> 5, x__id |-> 1, x__ver |-> 1,
               x__is_blackbox |-> FALSE, x__fields |-> {}],
     bb   |-> [ID |-> 6, VER |-> 7, x__id |-> 1, x__ver |-> 1,
               x__is_blackbox |-> TRUE, x__fields |-> {}]]

\* The addresses of the registers of the blocks.
BlockAddr == UNION {{Blocks[b].ID, Blocks[b].VER} : b \in DOMAIN Blocks}

\* Block._verify_id
_verify_id(s, b) ==
    LET s1 == read(s, Blocks[b].ID)
    IN IF s1.ret # Blocks[b].x__id THEN [s1 EXCEPT !.err = TRUE] ELSE s1

\* Block._verify_ver
_verify_ver(s, b) ==
    LET s1 == read(s, Blocks[b].VER)
    IN IF s1.ret # Blocks[b].x__ver THEN [s1 EXCEPT !.err = TRUE] ELSE s1

\* Block.verify_id_and_version: the loop over x__fields gets every field and
\* goes on, without a call on it; then the block's own ID and VER are verified.
verify_id_and_version(s, b) ==
    IF Blocks[b].x__is_blackbox THEN s
    ELSE LET s1 == _verify_id(s, b)
         IN IF s1.err THEN s1 ELSE _verify_ver(s1, b)

\* The registers hold any values when the verification begins.
InitV ==
    /\ rf \in [BlockAddr -> Word]
    /\ opers = <<>>
    /\ rmw_df = NoDf
    /\ rmw_addr = None
    /\ rmw_mask = 0
    /\ rmw_nval = 0
    /\ dfs = [f \in FutId |-> NewFuture]
    /\ held = {}
    /\ last = [op |-> "none", block |-> "top", err |-> FALSE]

\* block.verify_id_and_version()
Verify(b) ==
    \E s \in {verify_id_and_version(Cur, b)} :
       /\ Becomes(s)
       /\ last' = [op |-> "verify", block |-> b, err |-> s.err]

NextV == \E b \in DOMAIN Blocks : Verify(b)

SpecV == InitV /\ [][NextV]_vars

\* ------------------------------------------------------------------ vectors
\* Vector.__init__: the vectors of nitems items of size x__size at base.
Vectors ==
    [base : 0 .. MaxItems, nitems : 1 .. MaxItems, x__size : 1 .. MaxItems]

\* The integers given as index.
Keys == (0 - MaxItems) .. (MaxItems + 1)

\* Vector.__getitem__: the exception, or the base address given to the
\* object that is created.
Vector__getitem__(vec, key) ==
    IF key >= vec.nitems
    THEN [err |-> TRUE, addr |-> None]
    ELSE [err |-> FALSE, addr |-> vec.base + key * vec.x__size]

\* No vector accessed yet.
InitVec ==
    /\ rf = [a \in Addr |-> 0]
    /\ opers = <<>>
    /\ rmw_df = NoDf
    /\ rmw_addr = None
    /\ rmw_mask = 0
    /\ rmw_nval = 0
    /\ dfs = [f \in FutId |-> NewFuture]
    /\ held = {}
    /\ last = [op |-> "none", vec |-> [base |-> 0, nitems |-> 1, x__size |-> 1],
               key |-> 0, err |-> FALSE, addr |-> 0]

\* vec[key]
GetItem(vec, key) ==
    /\ \E r \in {Vector__getitem__(vec, key)} :
          last' = [op |-> "getitem", vec |-> vec, key |-> key, err |-> r.err, addr |-> r.addr]
    /\ UNCHANGED <<rf, opers, rmw_df, rmw_addr, rmw_mask, rmw_nval, dfs, held>>

NextVec == \E vec \in Vectors, key \in Keys : GetItem(vec, key)

SpecVec == InitVec /\ [][NextVec]_vars

\* ------------------------------------------------------------------ claims
AllOnes == 2 ^ WordBits - 1
\* ~x on a register word
Not(x) == BitXor(AllOnes, x)

\* The write that finalizing the pending RMW schedules.
PendingWrite == RmwOp(rmw_df, rmw_addr, rmw_mask, rmw_nval)

\* The operation list once the pending RMW, if any, is finalized.
Finalized == IF rmw_addr # None THEN Append(opers, PendingWrite) ELSE opers

\* The number of operations of kind k on address a in the list ops.
Count(ops, k, a) == Cardinality({i \in DOMAIN ops : ops[i].k = k /\ ops[i].addr = a})

\* The operations of ops after the first n.
After(ops, n) == SubSeq(ops, n + 1, Len(ops))

\* C1 for the address A and the requests (m1, v1), (m2, v2), made in the
\* current state: s1 and s2 are the states after the two requests, s3 after
\* the finalization, s4 after the dispatch.
TwoRequests(A, m1, v1, m2, v2) ==
    LET s1 == rmw(Cur, A, m1, v1)
        s2 == rmw(s1, A, m2, v2)
        s3 == rmw(s2, None, 0, 0)
        s4 == dispatch(s3)
        n  == Len(s3.opers)
        new == After(s3.opers, Len(opers))
        baseline == s4.bus[n - 1].val
    IN (rmw_addr # A /\ ~s1.full) =>
          /\ SubSeq(s3.opers, 1, Len(opers)) = opers
          /\ Count(new, "_read", A) = 1
          /\ Count(new, "_rmw", A) + Count(new, "_write", A) = 1
          /\ s3.opers[n - 1] = ReadOp(A, s1.rmw_df)
          /\ s3.opers[n].k = "_rmw" /\ s3.opers[n].df = s1.rmw_df
          /\ ~s4.err
          /\ s4.bus[n - 1].k = "r" /\ s4.bus[n - 1].addr = A
          /\ s4.bus[n].k = "w" /\ s4.bus[n].addr = A
          /\ s4.bus[n].val =
                BitOr(BitOr(BitAnd(baseline, Not(BitOr(m1, m2))),
                            BitAnd(BitAnd(v1, m1), Not(m2))),
                      BitAnd(v2, m2))

\* C1: in every reachable state, two consecutive rmw requests to the same
\* address A (the first of them starting the pending entry for A) with masks
\* m1, m2 and values v1, v2, followed by finalization, schedule exactly one
\* deferred read of A and exactly one deferred write to A, and the dispatch
\* writes (baseline & ~(m1|m2)) | (v1 & m1 & ~m2) | (v2 & m2), baseline being
\* the value that deferred read returned.
C1_TwoCoalescedRequests ==
    \A A \in Addr, m1 \in Word, v1 \in Word, m2 \in Word, v2 \in Word :
        TwoRequests(A, m1, v1, m2, v2)

\* The value that the baseline read of the pending RMW returns, or will
\* return when the list is dispatched.
PendingBaseline ==
    IF dfs[rmw_df].done THEN dfs[rmw_df].val
    ELSE LET i == CHOOSE i \in DOMAIN opers : opers[i] = ReadOp(rmw_addr, rmw_df)
         IN dispatch(Cur).bus[i].val

\* C2: an rmw request for address B while address A # B is pending appends
\* A's write to the list before B's baseline read; A's write has A's address
\* and A's baseline future and the mask and value accumulated while A was
\* pending, whatever the mask and value of B's request, and when it is
\* dispatched it writes (A's baseline & ~mask) | value to A.
C2_FlushBeforeNewTarget ==
    \A B \in Addr, m \in Word, v \in Word :
        LET s == rmw(Cur, B, m, v)
            d == dispatch(s)
            n == Len(opers)
        IN (rmw_addr # None /\ B # rmw_addr /\ ~s.full) =>
              /\ s.opers = opers \o <<PendingWrite, ReadOp(B, s.rmw_df)>>
              /\ s.rmw_df # rmw_df
              /\ s.rmw_addr = B
              /\ ~d.err
              /\ d.bus[n + 1] =
                    [k |-> "w", addr |-> rmw_addr,
                     val |-> BitOr(BitAnd(PendingBaseline, Not(rmw_mask)), rmw_nval),
                     q |-> n + 2, pend |-> B]
              /\ d.bus[n + 2].k = "r" /\ d.bus[n + 2].addr = B

\* A state that a request for another address than the pending one led to.
C2_Witness ==
    LET n == Len(opers)
    IN /\ last.op = "rmw"
       /\ n = 3
       /\ opers[n - 1].k = "_rmw"
       /\ opers[n].k = "_read"
       /\ opers[n - 1].addr # opers[n].addr
       /\ opers[n - 1].mask # 0
       /\ rmw_addr = opers[n].addr

\* C3: an rmw request that starts a new pending target starts from mask 0 and
\* value 0, and the mask of the write finalized for an address is the union
\* of the masks requested for it since its pending entry was created.
C3_StartsFromZero ==
    \A A \in Addr, m1 \in Word, v1 \in Word, m2 \in Word, v2 \in Word :
        LET s1 == rmw(Cur, A, m1, v1)
            s2 == rmw(s1, A, m2, v2)
            s3 == rmw(s2, None, 0, 0)
        IN (rmw_addr # A /\ ~s1.full) =>
              /\ s1.rmw_mask = m1
              /\ s1.rmw_nval = BitAnd(v1, m1)
              /\ s3.opers[Len(s3.opers)].mask = BitOr(m1, m2)

\* The reference model of the module docstring, in which every operation
\* takes effect at once: rmw is X := (X and ~mask) | (value and mask).
RefRmw(x, mask, val) == BitOr(BitAnd(x, Not(mask)), BitAnd(val, mask))

\* The register file of the reference model that corresponds to the state s:
\* what the registers hold once everything requested so far has been
\* finalized and dispatched.
RefRf(s) == dispatch(rmw(s, None, 0, 0)).rf

\* The value that the future f gives in state s.
RefVal(s, f) == DI_val(s, f).ret

\* The call that leads to s changes no value that a future of the caller gives.
KeepsFutures(s) == \A f \in held : RefVal(s, f) = RefVal(Cur, f)

\* C4: the register file and every value returned by an immediate read or
\* obtained from a future are those of the reference model that applies
\* each operation at once, in program order.
C4_RefinesImmediateModel ==
    /\ \A a \in Addr :
          LET s == read(Cur, a)
          IN s.ret = RefRf(Cur)[a] /\ RefRf(s) = RefRf(Cur) /\ KeepsFutures(s)
    /\ \A a \in Addr, v \in Word :
          LET s == write(Cur, a, v)
          IN RefRf(s) = [RefRf(Cur) EXCEPT ![a] = v] /\ KeepsFutures(s)
    /\ \A a \in Addr, v \in Word :
          LET s == writex(Cur, a, v)
          IN RefRf(s) = [RefRf(Cur) EXCEPT ![a] = v] /\ KeepsFutures(s)
    /\ \A a \in Addr :
          LET s == readx(Cur, a)
          IN ~s.full =>
                RefRf(s) = RefRf(Cur) /\ KeepsFutures(s) /\ RefVal(s, s.ret) = RefRf(Cur)[a]
    /\ \A a \in Addr, m \in Word, v \in Word :
          LET s == rmw(Cur, a, m, v)
          IN ~s.full =>
                RefRf(s) = [RefRf(Cur) EXCEPT ![a] = RefRmw(@, m, v)] /\ KeepsFutures(s)
    /\ LET s == dispatch(Cur)
       IN RefRf(s) = RefRf(Cur) /\ KeepsFutures(s)

\* The states s and u of the interface and the register file are the same.
Same(s, u) ==
    /\ s.rf = u.rf
    /\ s.opers = u.opers
    /\ s.rmw_df = u.rmw_df
    /\ s.rmw_addr = u.rmw_addr
    /\ s.rmw_mask = u.rmw_mask
    /\ s.rmw_nval = u.rmw_nval
    /\ s.dfs = u.dfs
    /\ s.held = u.held

\* C5: an immediate read or write first finalizes the pending RMW, then
\* dispatches the list if it is not empty, and then makes its own access,
\* with the list empty and no RMW pending; a read returns the value that
\* the register has after every operation requested before it.
C5_ImmediateAccessFlushesFirst ==
    \A a \in Addr, v \in Word :
        LET r == read(Cur, a)
            w == write(Cur, a, v)
            n == Len(Finalized)
        IN /\ ~r.err /\ ~w.err
           /\ r.ran = Finalized /\ w.ran = Finalized
           /\ r.nd = (IF n > 0 THEN 1 ELSE 0) /\ w.nd = r.nd
           /\ Len(r.bus) = n + 1 /\ Len(w.bus) = n + 1
           /\ r.bus[n + 1] = [k |-> "r", addr |-> a, val |-> r.ret, q |-> 0, pend |-> None]
           /\ w.bus[n + 1] = [k |-> "w", addr |-> a, val |-> v, q |-> 0, pend |-> None]
           /\ r.opers = <<>> /\ r.rmw_addr = None
           /\ w.opers = <<>> /\ w.rmw_addr = None
           /\ r.ret = RunOps(Cur, Finalized).rf[a]
           /\ w.rf = [RunOps(Cur, Finalized).rf EXCEPT ![a] = v]

\* An immediate read has finalized a pending RMW and dispatched a full list.
C5_Witness ==
    last.op = "read" /\ last.nd = 1 /\ last.nran = MaxQueue + 1 /\ ~last.err

\* C6: readx and writex, to any address, finalize a pending RMW before they
\* schedule their own operation: the write of the RMW precedes the new
\* operation in the list, and no RMW is pending afterwards.
C6_DeferredAccessFinalizesFirst ==
    \A a \in Addr, v \in Word :
        LET w == writex(Cur, a, v)
            r == readx(Cur, a)
        IN /\ w.opers = Append(Finalized, WriteOp(a, v))
           /\ w.rmw_addr = None
           /\ ~r.full =>
                 /\ r.opers = Append(Finalized, ReadOp(a, r.ret))
                 /\ r.rmw_addr = None
                 /\ r.ret \notin InUse(Cur)

\* writex to the address of the pending RMW has put the write of the RMW
\* before its own.
C6_Witness ==
    LET n == Len(opers)
    IN /\ last.op = "writex"
       /\ n >= 2
       /\ opers[n - 1].k = "_rmw"
       /\ opers[n].k = "_write"
       /\ opers[n].addr = opers[n - 1].addr
       /\ rmw_addr = None

\* The access to the register file that the scheduled operation x makes.
AccessOf(x, b) ==
    CASE x.k = "_write" -> b.k = "w" /\ b.addr = x.addr /\ b.val = x.val
      [] x.k = "_read"  -> b.k = "r" /\ b.addr = x.addr
      [] x.k = "_rmw"   -> b.k = "w" /\ b.addr = x.addr

\* C7: dispatch() executes every operation of the list once, in the order
\* of scheduling, and leaves the list empty; on an empty list it makes no
\* access and changes nothing, so a second dispatch() adds nothing to the
\* first.
C7_DispatchRunsEachOnce ==
    LET d == dispatch(Cur)
        dd == dispatch([d EXCEPT !.ran = <<>>, !.bus = <<>>])
    IN /\ ~d.err
       /\ d.ran = opers
       /\ Len(d.bus) = Len(opers)
       /\ \A i \in DOMAIN opers : AccessOf(opers[i], d.bus[i])
       /\ d.opers = <<>>
       /\ (opers = <<>>) => (d.bus = <<>> /\ Same(d, Cur))
       /\ dd.ran = <<>> /\ dd.bus = <<>> /\ Same(dd, d)

\* dispatch() has executed a full list.
C7_Witness ==
    last.op = "dispatch" /\ last.nran = MaxQueue /\ opers = <<>> /\ ~last.err

\* C8: the value of a future that is not resolved calls dispatch() once and
\* is the value its deferred read got at its place in the list; the value
\* of a resolved future is the stored one, got without dispatch() and
\* without access to the register file.
C8_FutureValue ==
    \A f \in held :
        LET s == DI_val(Cur, f)
        IN IF dfs[f].done
           THEN /\ s.nd = 0 /\ s.ran = <<>> /\ s.bus = <<>>
                /\ s.ret = dfs[f].val
                /\ Same(s, Cur)
           ELSE /\ ~s.err
                /\ s.nd = 1
                /\ s.ran = opers
                /\ \E i \in DOMAIN opers :
                      /\ opers[i].k = "_read" /\ opers[i].df = f
                      /\ s.bus[i].k = "r" /\ s.bus[i].addr = opers[i].addr
                      /\ s.ret = s.bus[i].val
                      /\ s.ret = RunOps(Cur, SubSeq(opers, 1, i - 1)).rf[opers[i].addr]

\* The value of an unresolved future was read: one dispatch() of two or more
\* operations.
C8_Witness ==
    last.op = "val" /\ last.nd = 1 /\ last.nran >= 2 /\ last.ret # None /\ ~last.err

\* C9: the operation list never grows beyond its full length OperListFull:
\* scheduling an operation when it is full dispatches it.
C9_ListBounded == Len(opers) <= OperListFull

\* C10: for every bitfield, every value v from vmin to vmax and every raw
\* word in the register, write(v) to the bitfield followed by read() of it
\* returns v, and the write leaves the bits of the register outside the
\* mask of the bitfield as they were.
C10_BitFieldRoundTrip ==
    \A base \in Addr, bf \in BitFields :
        \A v \in bf.vmin .. bf.vmax :
            LET raw == read(Cur, base).ret
                w == BF_write(Cur, base, bf, v)
                r == BF_read(w, base, bf)
            IN /\ ~w.err /\ ~r.err
               /\ r.ret = v
               /\ ClearBits(w.rf[base], bf.mask) = ClearBits(raw, bf.mask)
               /\ r.rf = w.rf

\* A read has returned the negative value just written to a bitfield that
\* has set bits of the register below it.
C10_Witness ==
    /\ last.op = "bf_read" /\ last.rw /\ ~last.err
    /\ last.ret = last.v
    /\ last.v < 0
    /\ last.bf.lsb > 0
    /\ ClearBits(rf[last.base], last.bf.mask) # 0

\* C11: a bitfield write(value) or writex(value, now) raises the exception
\* exactly when value < vmin or value > vmax, and when it does it has made
\* no access to the register file and changed nothing: the operation list,
\* the state of the pending RMW and the registers are as before.
C11_OutOfRangeRejected ==
    \A base \in Addr, bf \in Fields, now \in BOOLEAN :
        \A value \in (bf.vmin - 2) .. (bf.vmax + 2) :
            LET w == BF_write(Cur, base, bf, value)
                x == BF_writex(Cur, base, bf, value, now)
                out == value < bf.vmin \/ value > bf.vmax
            IN /\ w.err <=> out
               /\ x.err <=> out
               /\ out => /\ Same(w, Cur) /\ w.bus = <<>> /\ w.ran = <<>> /\ w.nd = 0
                         /\ Same(x, Cur) /\ x.bus = <<>> /\ x.ran = <<>> /\ x.nd = 0

\* A bitfield writex was rejected while an RMW was pending and operations
\* were scheduled.
C11_Witness ==
    last.op = "bf_writex" /\ last.err /\ rmw_addr # None /\ Len(opers) >= 2

\* The bit i of the non-negative x.
Bit(x, i) == Shr(x, i) % 2

\* C12: the mask of every bitfield descriptor with 0 <= lsb <= msb has
\* exactly the bits lsb .. msb set; if unsigned, vmin = 0 and
\* vmax = 2^(msb-lsb+1) - 1; if signed, sign_mask = 2^(msb-lsb),
\* vmin = -2^(msb-lsb) and vmax = 2^(msb-lsb) - 1.
C12_DescriptorFields ==
    LET bf == last.bf
        w == bf.msb - bf.lsb
    IN /\ \A i \in 0 .. (MaxMsb + 1) : (Bit(bf.mask, i) = 1) <=> (bf.lsb <= i /\ i <= bf.msb)
       /\ bf.mask < 2 ^ (bf.msb + 1)
       /\ IF last.is_signed
          THEN bf.sign_mask = 2 ^ w /\ bf.vmin = 0 - 2 ^ w /\ bf.vmax = 2 ^ w - 1
          ELSE bf.vmin = 0 /\ bf.vmax = 2 ^ (w + 1) - 1

\* A signed descriptor of several bits up to the highest msb, above bit 0.
C12_Witness ==
    /\ last.op = "BitField" /\ last.is_signed
    /\ last.bf.msb = MaxMsb /\ last.bf.lsb > 0 /\ last.bf.lsb < last.bf.msb

\* C13: write(value) on a status register raises the exception for every
\* value and in every state, and makes no access: the registers, the
\* operation list and the state of the pending RMW are unchanged.
C13_StatusWriteRejected ==
    \A base \in Status, value \in Word :
        LET s == Reg_write(Cur, RegClass[base], base, value)
        IN /\ s.err
           /\ Same(s, Cur)
           /\ s.bus = <<>> /\ s.ran = <<>> /\ s.nd = 0

\* write on a status register was rejected while an RMW was pending and
\* operations were scheduled.
C13_Witness ==
    /\ last.op = "write" /\ last.err /\ last.base \in Status
    /\ rmw_addr # None /\ Len(opers) >= 2

\* C14: whatever is called on a status register and its bitfields (write,
\* writex, rmw, write_fifo, bitfield write, bitfield writex, dispatch), no
\* write to the address of the status register is made in the register file.
C14_StatusNeverWritten == last.wrote \cap Status = {}

\* C17: read_fifo(count) and write_fifo(values) of a register call
\* read_fifo(address, count) and write_fifo(address, values) of the
\* interface; write_fifo never calls the write of single values.
C17_FifoPassThrough ==
    \A base \in Addr :
        /\ \A values \in FifoVals : Reg_write_fifo(Cur, base, values).method = "write_fifo"
        /\ \A count \in 1 .. MaxFifo : Reg_read_fifo(Cur, base, count).method = "read_fifo"

\* The registers ID and VER of the block b hold its constants.
Matches(b) == rf[Blocks[b].ID] = Blocks[b].x__id /\ rf[Blocks[b].VER] = Blocks[b].x__ver

\* The blocks that are not blackbox and are reached from b through the
\* fields of blocks that are not blackbox, b included.
RECURSIVE Reachable(_)
Reachable(b) ==
    IF Blocks[b].x__is_blackbox THEN {}
    ELSE {b} \cup UNION {Reachable(c) : c \in Blocks[b].x__fields}

\* C15: verify_id_and_version() on a block succeeds if and only if the
\* block, when not blackbox, and every block that is not blackbox and is
\* reached from it through its fields have ID and VER equal to their
\* constants, and it reads no register of a blackbox block.
C15_VerifyRecursive ==
    \A b \in DOMAIN Blocks :
        LET s == verify_id_and_version(Cur, b)
        IN /\ ~s.err <=> \A c \in Reachable(b) : Matches(c)
           /\ \A i \in DOMAIN s.bus :
                 \A c \in DOMAIN Blocks :
                    Blocks[c].x__is_blackbox => s.bus[i].addr \notin {Blocks[c].ID, Blocks[c].VER}

\* C16: the access to a vector at an integer index raises the exception
\* whenever the index is not the index of an item, and for the index of an
\* item gives an object at base + index * size, so that every object got
\* from a vector lies in [base, base + nitems * size).
C16_VectorInBounds ==
    LET vec == last.vec
    IN last.op = "getitem" =>
          /\ last.key \notin 0 .. (vec.nitems - 1) => last.err
          /\ last.key \in 0 .. (vec.nitems - 1) =>
                ~last.err /\ last.addr = vec.base + last.key * vec.x__size
          /\ ~last.err =>
                vec.base <= last.addr /\ last.addr < vec.base + vec.nitems * vec.x__size

\* C18: in every reachable state, after writex(v, now) on the field F of the
\* register R, the finalization and a dispatch, F reads back v, the bits of
\* R outside the masks of the fields written in that RMW have the value the
\* baseline read of R got, and the registers other than R have what the
\* operations requested before gave them.
C18_FieldWritesDoNotInterfere ==
    \A R \in Addr, F \in Fields, now \in BOOLEAN :
        \A v \in F.vmin .. F.vmax :
            LET s1 == BF_writex(Cur, R, F, v, now)
                s2 == rmw(s1, None, 0, 0)
                s3 == dispatch(s2)
                before == RunOps(Cur, Finalized).rf
            IN (rmw_addr # R /\ ~s1.full) =>
                  /\ ~s3.err
                  /\ BF_read(s3, R, F).ret = v
                  /\ ClearBits(s3.rf[R], F.mask) = ClearBits(before[R], F.mask)
                  /\ \A A \in Addr \ {R} : s3.rf[A] = before[A]

\* The futures that the caller, the pending RMW or a scheduled write of an
\* RMW refers to.
Futures == InUse(Cur) \ {NoDf}

\* The places of the operation list at which the future f is set.
ReadsOf(f) == {i \in DOMAIN opers : opers[i].k = "_read" /\ opers[i].df = f}

\* The states that a call made in the current state leads to.
Calls ==
    {read(Cur, a) : a \in Addr}
    \cup {write(Cur, a, v) : a \in Addr, v \in Word}
    \cup {writex(Cur, a, v) : a \in Addr, v \in Word}
    \cup {readx(Cur, a) : a \in Addr}
    \cup {rmw(Cur, p[1], p[2], p[3]) : p \in Addr \X Word \X Word}
    \cup {rmw(Cur, None, 0, 0), dispatch(Cur)}
    \cup {DI_val(Cur, f) : f \in held}

\* C19: in every reachable state every future that readx returned or that
\* is the baseline of an RMW is either resolved, with no read of it in the
\* list any more, or has exactly one deferred read in the list; so the
\* value of a future is got without the exception, and no call changes the
\* value of a resolved future.
C19_FuturesResolveOnce ==
    /\ \A f \in Futures :
          Cardinality(ReadsOf(f)) = (IF dfs[f].done THEN 0 ELSE 1)
    /\ \A f \in held : ~DI_val(Cur, f).err
    /\ \A s \in Calls : \A f \in Futures :
          (dfs[f].done /\ ~s.full) => s.dfs[f] = dfs[f]

\* A future the caller holds and the baseline of the pending RMW both wait
\* for their reads in the list.
C19_Witness ==
    /\ last.op = "rmw"
    /\ rmw_df # NoDf /\ ~dfs[rmw_df].done
    /\ \E f \in held : ~dfs[f].done /\ f # rmw_df

\* C20: whenever the write of an RMW is executed in a dispatch, its
\* baseline future is resolved, by a read earlier in the same dispatch or
\* in an earlier one; so the execution of the list makes no nested
\* dispatch and executes every operation once.
C20_BaselineResolvedFirst ==
    /\ \A i \in DOMAIN Finalized :
          Finalized[i].k = "_rmw" =>
             \/ dfs[Finalized[i].df].done
             \/ \E j \in 1 .. (i - 1) :
                   Finalized[j] = ReadOp(Finalized[i].addr, Finalized[i].df)
    /\ LET d == dispatch(rmw(Cur, None, 0, 0))
       IN ~d.err /\ d.nd = 1 /\ d.ran = Finalized /\ Len(d.bus) = Len(Finalized)

\* The write of an RMW was scheduled behind its baseline read, which has not
\* been executed yet.
C20_Witness ==
    /\ last.op = "finalize"
    /\ \E i \in DOMAIN opers :
          opers[i].k = "_rmw" /\ ~dfs[opers[i].df].done /\ opers[i].mask # 0

\* The state of the pending RMW is the same in s and u.
SamePending(s, u) ==
    /\ s.rmw_addr = u.rmw_addr
    /\ s.rmw_df = u.rmw_df
    /\ s.rmw_mask = u.rmw_mask
    /\ s.rmw_nval = u.rmw_nval

\* C21: dispatch(), called by the program or by the value of a future, does
\* not finalize the pending RMW and leaves its address, mask, value and
\* baseline future as they are: after rmw(A, m, v) and dispatch() the
\* baseline read of A is executed and the write of the RMW is not, until a
\* later finalization and dispatch execute it.
C21_DispatchKeepsPending ==
    /\ LET d == dispatch(Cur)
       IN SamePending(d, Cur) /\ d.ran = opers
    /\ \A f \in held :
          LET s == DI_val(Cur, f)
          IN SamePending(s, Cur) /\ (~dfs[f].done => s.ran = opers)
    /\ \A A \in Addr, m \in Word, v \in Word :
          LET s1 == rmw(Cur, A, m, v)
              d == dispatch(s1)
              e == dispatch(rmw([d EXCEPT !.ran = <<>>, !.bus = <<>>], None, 0, 0))
              w == RmwOp(s1.rmw_df, A, s1.rmw_mask, s1.rmw_nval)
          IN ~s1.full =>
                /\ ~d.err
                /\ SamePending(d, s1) /\ d.rmw_addr = A
                /\ d.dfs[d.rmw_df].done
                /\ d.ran = s1.opers
                /\ \A i \in DOMAIN d.ran : d.ran[i].k = "_rmw" => d.ran[i].df # s1.rmw_df
                /\ d.opers = <<>>
                /\ ~e.err /\ e.ran = <<w>>
                /\ Len(e.bus) = 1 /\ e.bus[1].k = "w" /\ e.bus[1].addr = A
                /\ e.rmw_addr = None

\* A dispatch has executed the baseline read of an RMW that is still pending
\* with its mask.
C21_Witness ==
    /\ last.op = "dispatch" /\ last.nran >= 1 /\ ~last.err
    /\ rmw_addr # None /\ rmw_mask # 0
    /\ dfs[rmw_df].done
    /\ opers = <<>>

====
